---- MODULE Spec2Model ----
(***************************************************************************)
(* Model of the image-optimizer pipeline: the ingestion handler            *)
(* (internal/api/handlers), the queue client's consumer loop               *)
(* (internal/queue/rabbitmq), the worker (internal/worker), the image      *)
(* processor (internal/processor/image) and the Postgres repository.       *)
(*                                                                         *)
(* Optional values (a nullable column, a map entry that may be missing or  *)
(* of the wrong type) are sequences of length 0 or 1.  Texts are sequences *)
(* of fragments, so that the empty string is <<>> and fmt.Sprintf is a     *)
(* concatenation whose emptiness is computed.                              *)
(***************************************************************************)
EXTENDS Integers, Sequences, FiniteSets, TLC

VARIABLES
    rows,       \* table images: [id -> row], DOMAIN rows = the ids that have a row
    objects,    \* the bucket: [key -> content], DOMAIN objects = the keys present
    msgs,       \* every message the broker holds or held: [msg id -> [body, deliveries]]
    queue,      \* ids of the messages ready for delivery
    up,         \* the upload request of the ingestion handler
    wk,         \* the consumer goroutine and the processTask call it runs
    sem,        \* Worker.sem: [cap, count, closed]
    wg,         \* Worker.wg counter
    ctxDone,    \* the root context of the worker process is cancelled
    mainpc,     \* position of the worker's main goroutine
    del,        \* the DELETE request of the ingestion handler
    call        \* one call of a function of the program taken on its own:
                \* its arguments and, once it has run, what it returned

vars == <<rows, objects, msgs, queue, up, wk, sem, wg, ctxDone, mainpc, del, call>>

----------------------------------------------------------------------------
(* Bounds of the model *)

MaxDim == 2          \* image widths and heights are 1..MaxDim
MaxLen == 2          \* byte lengths of originals and encodings are 1..MaxLen
MaxDeliveries == 2   \* deliveries the broker makes to the consumer
MaxCap == 2          \* the largest MAX_WORKERS
WideSide == 49       \* the least side x with float64(x) * (1 / float64(x)) < 1
MaxSide == 22        \* sides and maxima of the target dimensions taken alone
QualityOver == 101   \* a quality above the range of the JPEG encoder
MaxPage == 3         \* the largest page number of a listing
MaxRequests == 2     \* DELETE requests in flight at the same time

(* Program constants *)

defaultMaxWidth == 1200
defaultMaxHeight == 1200
defaultQuality == 85
defaultOptimizeStorage == TRUE
maxQuality == 100
defaultLimit == 10
maxLimit == 100

----------------------------------------------------------------------------
(* Optional values and texts *)

None == <<>>
Some(v) == <<v>>
IsSome(o) == Len(o) = 1
Get(o) == o[1]

EmptyText == <<>>
Sprintf(prefix, arg) == <<prefix>> \o arg
Errorf(msg) == <<msg>>

TaskTypeResizeImage == "resize_image"
StatusPending == "pending"
StatusProcessing == "processing"
StatusCompleted == "completed"
StatusFailed == "failed"

----------------------------------------------------------------------------
(* Identifiers, files and object keys *)

ImageId == "u1"                \* the id uuid.New() gives the upload
GhostId == "u0"                \* a well-formed uuid no row ever has
Uuids == {ImageId, GhostId}    \* the strings uuid.Parse accepts

Ext(kind) == IF kind = "png" THEN ".png" ELSE ".jpg"
FileName(kind) == [base |-> "photo", ext |-> Ext(kind)]

\* MinioClient.GenerateObjectName: "{id}/{base}{ext}"
GenerateObjectName(id, fileName) == <<id, fileName.base, fileName.ext>>
\* Processor.ProcessImage: "{id}/optimized{ext}"
OptimizedPath_OverOriginal(id, fileName) == <<id, fileName.base, fileName.ext>>
OptimizedPath(id, fileName) == <<id, "optimized", fileName.ext>>

GifKey == <<"ext", "anim", ".gif">>
CorruptKey == <<"ext", "broken", ".jpg">>

Content(kind, w, h, len) == [kind |-> kind, w |-> w, h |-> h, len |-> len]

----------------------------------------------------------------------------
(* Dynamically typed values of a task's data map: Go values before           *)
(* json.Marshal, JSON-decoded values after json.Unmarshal into map[string]any *)

Val(t, v) == Some([t |-> t, v |-> v])
\* the comma-ok type assertion x.(T): a missing entry and a wrong type both fail
TypeIs(entry, t) == IsSome(entry) /\ Get(entry).t = t

\* encoding/json: every number decodes as float64 in a map[string]any
JsonEntry(entry) ==
    IF IsSome(entry) /\ Get(entry).t = "int"
    THEN Val("float64", Get(entry).v)
    ELSE entry

JsonConfig(entry) ==
    IF TypeIs(entry, "map")
    THEN Val("map", [k \in DOMAIN Get(entry).v |-> JsonEntry(Get(entry).v[k])])
    ELSE entry

\* json.Marshal(task) followed by json.Unmarshal(msg.Body, &task)
JsonRoundTrip(task) ==
    [task EXCEPT !.data = [k \in DOMAIN task.data |->
        IF k = "config" THEN JsonConfig(task.data[k]) ELSE JsonEntry(task.data[k])]]

Body(task) == [task |-> Some(JsonRoundTrip(task))]
GarbageBody == [task |-> None]

----------------------------------------------------------------------------
(* Repository (Postgres): each operation is one SQL statement *)

\* models.NewImageWithID and the INSERT of CreateImage: optimized_* and error are NULL
NewImageRow(fileName, size, width, height, format, objectName) ==
    [original_name |-> fileName, original_size |-> size,
     original_width |-> width, original_height |-> height,
     original_format |-> format, original_path |-> objectName,
     optimized_path |-> None, optimized_size |-> None,
     optimized_width |-> None, optimized_height |-> None,
     status |-> StatusPending, error |-> None]

CreateImage(r, id, row) == (id :> row) @@ r

\* UPDATE images SET status, error, updated_at WHERE id: no row, no error
UpdateImageStatus_KeepError(r, id, status, errorMsg) ==
    IF id \in DOMAIN r
    THEN [r EXCEPT ![id].status = status,
                   ![id].error = IF errorMsg = EmptyText /\ IsSome(@) THEN @ ELSE Some(errorMsg)]
    ELSE r

UpdateImageStatus_Upsert(r, id, status, errorMsg) ==
    IF id \in DOMAIN r
    THEN [r EXCEPT ![id].status = status, ![id].error = Some(errorMsg)]
    ELSE (id :> [NewImageRow(FileName("jpeg"), 0, 0, 0, "jpeg", <<id>>)
                   EXCEPT !.status = status, !.error = Some(errorMsg)]) @@ r

UpdateImageStatus(r, id, status, errorMsg) ==
    IF id \in DOMAIN r
    THEN [r EXCEPT ![id].status = status, ![id].error = Some(errorMsg)]
    ELSE r

\* UPDATE images SET optimized_*, status = completed, updated_at WHERE id
UpdateImageOptimized_Accumulate(r, id, path, size, width, height) ==
    IF id \in DOMAIN r
    THEN [r EXCEPT ![id].optimized_path = Some(path),
                   ![id].optimized_size = IF IsSome(@) THEN Some(Get(@) + size) ELSE Some(size),
                   ![id].optimized_width = Some(width),
                   ![id].optimized_height = Some(height),
                   ![id].status = StatusCompleted]
    ELSE r

UpdateImageOptimized(r, id, path, size, width, height) ==
    IF id \in DOMAIN r
    THEN [r EXCEPT ![id].optimized_path = Some(path),
                   ![id].optimized_size = Some(size),
                   ![id].optimized_width = Some(width),
                   ![id].optimized_height = Some(height),
                   ![id].status = StatusCompleted]
    ELSE r

\* UPDATE images SET every column but id and created_at WHERE id: the fields of
\* the struct are plain values, none of them is written as NULL
UpdateImage(r, image) ==
    IF image.id \in DOMAIN r
    THEN [r EXCEPT ![image.id] =
            [original_name |-> image.original_name, original_size |-> image.original_size,
             original_width |-> image.original_width, original_height |-> image.original_height,
             original_format |-> image.original_format, original_path |-> image.original_path,
             optimized_path |-> Some(image.optimized_path),
             optimized_size |-> Some(image.optimized_size),
             optimized_width |-> Some(image.optimized_width),
             optimized_height |-> Some(image.optimized_height),
             status |-> image.status, error |-> Some(image.error)]]
    ELSE r

\* DELETE FROM images WHERE id
DeleteImageRow(r, id) == [k \in DOMAIN r \ {id} |-> r[k]]

\* SELECT ... WHERE id, scanned into models.Image: the nullable columns
\* optimized_path, optimized_size, optimized_width, optimized_height and error are
\* scanned into string, int64 and int fields, and pgx refuses to scan NULL into them
Scannable(row) ==
    /\ IsSome(row.optimized_path) /\ IsSome(row.optimized_size)
    /\ IsSome(row.optimized_width) /\ IsSome(row.optimized_height)
    /\ IsSome(row.error)

\* Repository.GetImageByID; ok: the query itself went through
GetImageByID(r, id, ok) ==
    IF ~ok THEN "error"
    ELSE IF id \notin DOMAIN r THEN "notfound"
    ELSE IF ~Scannable(r[id]) THEN "error"
    ELSE "found"

----------------------------------------------------------------------------
(* Object store (MinIO) *)

MinioUploadImage(objs, key, content) == (key :> content) @@ objs
MinioDeleteImage(objs, key) == [k \in DOMAIN objs \ {key} |-> objs[k]]

----------------------------------------------------------------------------
(* Image processor *)

Nil == "nil"

\* float64 arithmetic of the scale factor.  A positive float64 is
\* [bits, frac]: the significand as a sequence of binary digits, most
\* significant first, and the number of those digits that follow the binary
\* point; its value is the integer spelled by bits, divided by 2^frac.
MantissaBits == 53

\* The recursions are functions, whose arguments are values.
Bit == {0, 1}

Shift[m \in Nat, d \in Nat] == IF m >= d THEN 0 ELSE 1 + Shift[2 * m, d]

Pow2[k \in Nat] == IF k = 0 THEN 1 ELSE 2 * Pow2[k - 1]

\* the next n binary digits of r/d, for 0 <= r < d, and the remainder after them
DivBits[r \in Nat, d \in Nat, n \in Nat] ==
    IF n = 0 THEN <<>>
    ELSE IF 2 * r >= d THEN <<1>> \o DivBits[2 * r - d, d, n - 1]
         ELSE <<0>> \o DivBits[2 * r, d, n - 1]

DivRem[r \in Nat, d \in Nat, n \in Nat] ==
    IF n = 0 THEN r
    ELSE IF 2 * r >= d THEN DivRem[2 * r - d, d, n - 1]
         ELSE DivRem[2 * r, d, n - 1]

Inc[bits \in Seq(Bit)] ==
    IF bits = <<>> THEN <<1>>
    ELSE IF bits[Len(bits)] = 0 THEN SubSeq(bits, 1, Len(bits) - 1) \o <<1>>
         ELSE Inc[SubSeq(bits, 1, Len(bits) - 1)] \o <<0>>

IntBits[c \in Nat] == IF c = 0 THEN <<>> ELSE IntBits[c \div 2] \o <<c % 2>>

BitsInt[bits \in Seq(Bit)] ==
    IF bits = <<>> THEN 0
    ELSE 2 * BitsInt[SubSeq(bits, 1, Len(bits) - 1)] + bits[Len(bits)]

\* digits of x times the integer spelled by bits[1..i], plus carry
MulFrom[bits \in Seq(Bit), x \in Nat, i \in Nat, carry \in Nat] ==
    IF i = 0 THEN IntBits[carry]
    ELSE MulFrom[bits, x, i - 1, (bits[i] * x + carry) \div 2]
             \o <<(bits[i] * x + carry) % 2>>

Float64 == [bits : Seq(Bit), frac : Int]

\* IEEE 754 round to nearest, ties to even, to MantissaBits digits
Round[sig \in Float64] ==
    IF Len(sig.bits) <= MantissaBits THEN sig
    ELSE LET head == SubSeq(sig.bits, 1, MantissaBits)
             tail == SubSeq(sig.bits, MantissaBits + 1, Len(sig.bits))
             roundUp == /\ tail[1] = 1
                        /\ \/ \E i \in 2..Len(tail) : tail[i] = 1
                           \/ head[MantissaBits] = 1
         IN  [bits |-> IF roundUp THEN Inc[head] ELSE head,
              frac |-> sig.frac - Len(tail)]

\* the quotient r/d, 1 <= r/d < 2, times 2^-e: float64(m) / float64(d) when r = m * 2^e
Quotient[r \in Nat, d \in Nat, e \in Nat] ==
    LET rem == DivRem[r - d, d, MantissaBits - 1]
        roundUp == 2 * rem > d \/ (2 * rem = d /\ (2 * DivRem[r - d, d, MantissaBits - 2]) >= d)
    IN  [bits |-> IF roundUp THEN Inc[<<1>> \o DivBits[r - d, d, MantissaBits - 1]]
                  ELSE <<1>> \o DivBits[r - d, d, MantissaBits - 1],
         frac |-> MantissaBits - 1 + e]

\* float64(m) / float64(d) for integers 0 < m < d
Float64Div(m, d) == Quotient[m * Pow2[Shift[m, d]], d, Shift[m, d]]

\* float64(x) * f for an integer x > 0
Float64Mul[x \in Nat, f \in Float64] ==
    Round[[bits |-> MulFrom[f.bits, x, Len(f.bits), 0], frac |-> f.frac]]

\* int(f): the conversion truncates
Trunc[f \in Float64] ==
    IF Len(f.bits) <= f.frac THEN 0
    ELSE BitsInt[SubSeq(f.bits, 1, Len(f.bits) - f.frac)]

\* int(float64(x) * scaleFactor) with scaleFactor = float64(m) / float64(d) < 1
ScaledSide(x, m, d) == Trunc[Float64Mul[x, Float64Div(m, d)]]

\* Target dimensions, lines 86-109: scaleFactor = math.Min(maxW/W, maxH/H),
\* new sides int(float64(side) * scaleFactor) when scaleFactor < 1.0.  The
\* division rounds monotonically, so the smaller quotient is the smaller float.
TargetDims_Upscale(W, H, maxW, maxH) ==
    IF maxW > 0 /\ maxH > 0
    THEN LET widthIsMin == maxW * H <= maxH * W
             num == IF widthIsMin THEN maxW ELSE maxH
             den == IF widthIsMin THEN W ELSE H
         IN  IF num < den
             THEN <<ScaledSide(W, num, den), ScaledSide(H, num, den)>>
             ELSE <<(W * num) \div den, (H * num) \div den>>
    ELSE <<W, H>>

TargetDims(W, H, maxW, maxH) ==
    IF maxW > 0 /\ maxH > 0
    THEN LET widthIsMin == maxW * H <= maxH * W
             num == IF widthIsMin THEN maxW ELSE maxH
             den == IF widthIsMin THEN W ELSE H
         IN  IF num < den
             THEN <<ScaledSide(W, num, den), ScaledSide(H, num, den)>>
             ELSE <<W, H>>
    ELSE <<W, H>>

\* imaging.Resize(img, width, height, filter), called at line 114: a side of 0
\* keeps the aspect ratio, floor(other * src / srcOther + 0.5) and at least 1 pixel
ResizedSide(n, other, srcN, srcOther) ==
    IF n = 0
    THEN LET r == (2 * other * srcN + srcOther) \div (2 * srcOther)
         IN  IF r < 1 THEN 1 ELSE r
    ELSE n

\* imaging.Resize: the empty image when a side is negative or both are 0
Resize(w, h, newWidth, newHeight) ==
    IF newWidth < 0 \/ newHeight < 0 \/ (newWidth = 0 /\ newHeight = 0)
    THEN <<0, 0>>
    ELSE <<ResizedSide(newWidth, newHeight, w, h), ResizedSide(newHeight, newWidth, h, w)>>

\* lines 111-125: the image is resized only when a target side differs
ResizedDims(w, h, newWidth, newHeight) ==
    IF newWidth # w \/ newHeight # h THEN Resize(w, h, newWidth, newHeight) ELSE <<w, h>>

\* lines 138-156: jpeg.Encode takes any image under 65536 pixels a side, an
\* empty one too; png's Encode refuses an image without pixels; any other
\* format ends the call
EncodeError(kind, dims) ==
    IF kind = "jpeg" THEN Nil
    ELSE IF kind = "png"
         THEN IF dims[1] <= 0 \/ dims[2] <= 0 THEN "error encoding processed image" ELSE Nil
         ELSE "unsupported image format"

ProcessingResult(path, size, width, height) ==
    [OptimizedPath |-> path, OptimizedSize |-> size,
     OptimizedWidth |-> width, OptimizedHeight |-> height]

\* line 161: the processed image is uploaded when it is smaller, when it was
\* resized, or when the configuration asks for it
ShouldUpload_SizeBlind(encLen, len, newWidth, w, newHeight, h, optimizeStorage) ==
    newWidth # w \/ newHeight # h \/ optimizeStorage
ShouldUpload(encLen, len, newWidth, w, newHeight, h, optimizeStorage) ==
    encLen < len \/ newWidth # w \/ newHeight # h \/ optimizeStorage

\* Processor.ProcessImage, lines 48-162: the original is fetched, read, decoded,
\* resized and encoded.  io is what the outside world decides meanwhile: getOk
\* (GetImage returns a reader), readOk (the body is read to its end), encLen
\* (length of the encoding).  The call is over with err or with result, or it
\* goes on to store upload.
ProcessImageEncode(objs, imageID, originalPath, fileName, config, io) ==
    LET fail(e) == [err |-> e, result |-> None, upload |-> None]
    IN
    IF ~io.getOk THEN fail("error getting image from MinIO")
    ELSE IF ~io.readOk \/ originalPath \notin DOMAIN objs THEN fail("error reading image data")
    ELSE LET img == objs[originalPath] IN
    IF img.kind = "corrupt" THEN fail("error decoding image")
    ELSE
    LET dims == TargetDims(img.w, img.h, config.MaxWidth, config.MaxHeight)
        newWidth == dims[1]
        newHeight == dims[2]
        resized == ResizedDims(img.w, img.h, newWidth, newHeight)
        optimizedPath == OptimizedPath(imageID, fileName)
    IN
    IF EncodeError(img.kind, resized) # Nil THEN fail(EncodeError(img.kind, resized))
    ELSE IF ShouldUpload(io.encLen, img.len, newWidth, img.w, newHeight, img.h,
                         config.OptimizeStorage)
    THEN [err |-> Nil,
          result |-> Some(ProcessingResult(optimizedPath, io.encLen, newWidth, newHeight)),
          upload |-> Some([path |-> optimizedPath,
                           content |-> Content(img.kind, resized[1], resized[2], io.encLen)])]
    ELSE [err |-> Nil,
          result |-> Some(ProcessingResult(originalPath, img.len, img.w, img.h)),
          upload |-> None]

\* Processor.ProcessImage, lines 164-181: the encoding is stored; enc is what
\* the first part left, putOk whether UploadImage succeeds
ProcessImageStore(objs, enc, putOk) ==
    IF ~putOk
    THEN [err |-> "error uploading processed image", result |-> None, objects |-> objs]
    ELSE [err |-> Nil, result |-> enc.result,
          objects |-> MinioUploadImage(objs, Get(enc.upload).path, Get(enc.upload).content)]

\* Processor.ProcessImage as one call that nothing else runs into
ProcessImage(objs, imageID, originalPath, fileName, config, io) ==
    LET enc == ProcessImageEncode(objs, imageID, originalPath, fileName, config, io)
    IN  IF IsSome(enc.upload)
        THEN ProcessImageStore(objs, enc, io.putOk)
        ELSE [err |-> enc.err, result |-> enc.result, objects |-> objs]

----------------------------------------------------------------------------
(* Worker: configuration of one task, processImageResize lines 604-647 *)

NumberOr(entry, default) ==
    IF TypeIs(entry, "float64") THEN Get(entry).v ELSE default

EffectiveConfig(configData) ==
    LET mw == NumberOr(configData.max_width, defaultMaxWidth)
        mh == NumberOr(configData.max_height, defaultMaxHeight)
        q  == NumberOr(configData.quality, defaultQuality)
        opt == IF TypeIs(configData.optimize_storage, "bool")
               THEN Get(configData.optimize_storage).v
               ELSE defaultOptimizeStorage
    IN  [MaxWidth |-> IF mw <= 0 THEN defaultMaxWidth ELSE mw,
         MaxHeight |-> IF mh <= 0 THEN defaultMaxHeight ELSE mh,
         Quality |-> IF q <= 0 \/ q > maxQuality THEN defaultQuality ELSE q,
         OptimizeStorage |-> opt]

\* The checks of task.Data, processImageResize lines 567-588, in the code's order
PayloadError(data) ==
    IF ~TypeIs(data.image_id, "string") THEN "missing or invalid image_id in task data"
    ELSE IF ~TypeIs(data.original_path, "string") THEN "missing or invalid original_path in task data"
    ELSE IF ~TypeIs(data.filename, "string") THEN "missing or invalid filename in task data"
    ELSE IF ~TypeIs(data.config, "map") THEN "missing or invalid config in task data"
    ELSE IF Get(data.image_id).v \notin Uuids THEN "invalid image ID format"
    ELSE Nil

\* errMsg of the two failed writes, lines 668 and 690
ProcessingErrMsg_Blank(err) == EmptyText
ProcessingErrMsg(err) == Sprintf("error processing image: ", Errorf(err))
UpdateErrMsg(err) == Sprintf("error updating image record after successful processing: ", Errorf(err))

----------------------------------------------------------------------------
(* Inputs *)

Dims == 1..MaxDim
Lens == 1..MaxLen

\* Files that pass the handler's validation (extension, MIME sniff, ValidateImage):
\* a JPEG wider than high, and a square PNG of the side whose scaled sides are
\* both 0 for a maximum of 1
UploadFiles == {Content("jpeg", MaxDim, 1, MaxLen), Content("png", WideSide, WideSide, MaxLen)}

\* Query parameters as strconv.Atoi gives them; 0 is the DefaultQuery value,
\* MaxDim - 1 a width just under that of the widest file
Queries == [max_width : {0, MaxDim - 1}, max_height : {0}, quality : {0}]

\* strconv.Atoi of a query parameter: the number, or 0 and an error for a text
\* that is not a number (None); the handler overrides with err == nil && n > 0
Atoi(param) == IF IsSome(param) THEN Get(param) ELSE 0

\* Task published by ImageHandler.UploadImage, lines 136-163
UploadTask(id, objectName, fileName, q) ==
    [id |-> id, type |-> TaskTypeResizeImage,
     data |-> [image_id |-> Val("string", id),
               original_path |-> Val("string", objectName),
               filename |-> Val("string", fileName),
               config |-> Val("map",
                   [max_width |-> Val("int", IF q.max_width > 0 THEN q.max_width ELSE 1200),
                    max_height |-> Val("int", IF q.max_height > 0 THEN q.max_height ELSE 1200),
                    quality |-> Val("int", IF q.quality > 0 THEN q.quality ELSE 85),
                    optimize_storage |-> Val("bool", TRUE)])]]

\* Messages some other publisher left in the durable queue
ForeignKinds == {"unknown_type", "no_image_id", "no_original_path", "no_filename",
                 "no_config", "bad_uuid", "ghost", "gif", "corrupt", "garbage"}

EmptyConfig == Val("map", [max_width |-> None, max_height |-> None,
                           quality |-> None, optimize_storage |-> None])

NoStorageConfig == Val("map", [max_width |-> None, max_height |-> None,
                               quality |-> None, optimize_storage |-> Val("bool", FALSE)])

ForeignTask(kind) ==
    LET jpg == FileName("jpeg")
        data == [image_id |-> Val("string", ImageId),
                 original_path |-> Val("string", GenerateObjectName(ImageId, jpg)),
                 filename |-> Val("string", jpg),
                 config |-> EmptyConfig]
        resize(d) == [id |-> "t0", type |-> TaskTypeResizeImage, data |-> d]
    IN  CASE kind = "unknown_type" -> [id |-> "t0", type |-> "rotate_image", data |-> data]
          [] kind = "no_image_id" -> resize([data EXCEPT !.image_id = None])
          [] kind = "no_original_path" -> resize([data EXCEPT !.original_path = Val("float64", 1)])
          [] kind = "no_filename" -> resize([data EXCEPT !.filename = None])
          [] kind = "no_config" -> resize([data EXCEPT !.config = Val("string", "x")])
          [] kind = "bad_uuid" -> resize([data EXCEPT !.image_id = Val("string", "not-a-uuid")])
          [] kind = "ghost" -> resize([data EXCEPT !.image_id = Val("string", GhostId),
                                                   !.config = NoStorageConfig])
          [] kind = "gif" -> resize([data EXCEPT !.original_path = Val("string", GifKey)])
          [] kind = "corrupt" -> resize([data EXCEPT !.original_path = Val("string", CorruptKey)])

ForeignBody(kind) == IF kind = "garbage" THEN GarbageBody ELSE Body(ForeignTask(kind))

Message(body) == [body |-> body, deliveries |-> 0]

ForeignObjects == (GifKey :> Content("gif", 1, 1, 1)) @@ (CorruptKey :> Content("corrupt", 0, 0, 1))

----------------------------------------------------------------------------
(* State *)

\* MAX_WORKERS: an unbuffered semaphore, a single slot, the largest pool
Capacities == {0, 1, MaxCap}

WkIdle == [pc |-> "select", msg |-> None, err |-> Nil, held |-> FALSE,
           invoked |-> FALSE, termWrite |-> FALSE, fetch |-> "none", result |-> None,
           outcome |-> "none", late |-> FALSE, claimed |-> FALSE, upload |-> None,
           lost |-> FALSE]

DelIdle == [pc |-> "idle", img |-> None]

NoCall == [fn |-> "none"]

Init ==
    /\ rows = <<>>
    /\ objects = ForeignObjects
    /\ \E f \in ForeignKinds \cup {"none"} :
          /\ msgs = IF f = "none" THEN <<>> ELSE ("m0" :> Message(ForeignBody(f)))
          /\ queue = IF f = "none" THEN {} ELSE {"m0"}
    /\ up = [pc |-> "idle", file |-> None, query |-> None, cleanup |-> "none"]
    /\ wk = WkIdle
    /\ \E c \in Capacities : sem = [cap |-> c, count |-> 0, closed |-> FALSE]
    /\ wg = 0
    /\ ctxDone = FALSE
    /\ mainpc = "running"
    /\ del = DelIdle
    /\ call = NoCall

----------------------------------------------------------------------------
(* Ingestion handler: ImageHandler.UploadImage *)

\* Every step of the handler ends the request with a 500 when its call failed
AfterStep_Ignore(ok, next) == next
AfterStep(ok, next) == IF ok THEN next ELSE "500"

\* lines 102-119: generate the id, put the original
UploadPut ==
    /\ up.pc = "idle"
    /\ \E f \in UploadFiles, q \in Queries, ok \in BOOLEAN :
          LET objectName == GenerateObjectName(ImageId, FileName(f.kind)) IN
          /\ objects' = IF ok THEN MinioUploadImage(objects, objectName, f) ELSE objects
          /\ up' = [pc |-> AfterStep(ok, "stored"), file |-> Some(f), query |-> Some(q),
                    cleanup |-> "none"]
    /\ UNCHANGED <<rows, msgs, queue, wk, sem, wg, ctxDone, mainpc, del, call>>

\* lines 126-129: the cleanup after a failed insert, DeleteImage with a fresh
\* context; its error is logged and nothing else
CleanupObject_Skip(objs, key, cleanupOk) == objs
CleanupObject(objs, key, cleanupOk) ==
    IF cleanupOk THEN MinioDeleteImage(objs, key) ELSE objs

\* lines 121-133: insert the row; on failure delete the object, best effort
UploadCreate ==
    /\ up.pc = "stored"
    /\ LET f == Get(up.file)
           fileName == FileName(f.kind)
           objectName == GenerateObjectName(ImageId, fileName)
       IN \E ok \in BOOLEAN, cleanupOk \in BOOLEAN :
          IF ok
          THEN /\ rows' = CreateImage(rows, ImageId,
                     NewImageRow(fileName, f.len, f.w, f.h, f.kind, objectName))
               /\ objects' = objects
               /\ up' = [up EXCEPT !.pc = AfterStep(ok, "created")]
          ELSE /\ rows' = rows
               /\ objects' = CleanupObject(objects, objectName, cleanupOk)
               /\ up' = [up EXCEPT !.pc = AfterStep(ok, "created"),
                                   !.cleanup = IF cleanupOk THEN "deleted" ELSE "failed"]
    /\ UNCHANGED <<msgs, queue, wk, sem, wg, ctxDone, mainpc, del, call>>

\* lines 179-192: a failed publish is logged ("Continue anyway"), the response
\* is 202 with status pending either way
AfterPublish_Strict(ok) == IF ok THEN "202" ELSE "500"
AfterPublish(ok) == "202"

\* lines 135-192: publish the task; 202 whether or not the publish succeeded
UploadPublish ==
    /\ up.pc = "created"
    /\ LET f == Get(up.file)
           fileName == FileName(f.kind)
           task == UploadTask(ImageId, GenerateObjectName(ImageId, fileName), fileName, Get(up.query))
       IN \E ok \in BOOLEAN :
          /\ msgs' = IF ok THEN ("m1" :> Message(Body(task))) @@ msgs ELSE msgs
          /\ queue' = IF ok THEN queue \cup {"m1"} ELSE queue
          /\ up' = [up EXCEPT !.pc = AfterPublish(ok)]
    /\ UNCHANGED <<rows, objects, wk, sem, wg, ctxDone, mainpc, del, call>>

----------------------------------------------------------------------------
(* Ingestion handler: ImageHandler.DeleteImage.  A request that has answered *)
(* leaves nothing behind, so the handler is idle again.                      *)

\* the fields of the fetched models.Image the handler uses
ImageOf(r, id) ==
    [id |-> id, OriginalPath |-> r[id].original_path,
     OptimizedPath |-> Get(r[id].optimized_path)]

\* line 336: the optimized object is deleted when its path is set and is not
\* the original's
HasOptimizedObject_Never(img) == FALSE
HasOptimizedObject(img) ==
    img.OptimizedPath # EmptyText /\ img.OptimizedPath # img.OriginalPath

\* Repository.DeleteImage, lines 173-187, and lines 346-355 of the handler: an
\* error of the statement and a statement that affected no row are both an
\* error of DeleteImage, answered 500
RowsAffected(r, id) == IF id \in DOMAIN r THEN 1 ELSE 0
DeleteResponse(ok, affected) == IF ok /\ affected > 0 THEN "200" ELSE "500"

\* lines 310-326: parse the id, read the row; 404 on any error of GetImageByID
DeleteGet ==
    /\ del.pc = "idle"
    /\ \E id \in Uuids, ok \in BOOLEAN :
          IF GetImageByID(rows, id, ok) = "found"
          THEN del' = [pc |-> "original", img |-> Some(ImageOf(rows, id))]
          ELSE del' = DelIdle
    /\ UNCHANGED <<rows, objects, msgs, queue, up, wk, sem, wg, ctxDone, mainpc, call>>

\* lines 328-333: delete the original object; a failure is logged, the handler goes on
DeleteOriginal ==
    /\ del.pc = "original"
    /\ LET img == Get(del.img) IN
       /\ \E ok \in BOOLEAN :
             objects' = IF ok THEN MinioDeleteImage(objects, img.OriginalPath) ELSE objects
       /\ del' = [del EXCEPT !.pc = IF HasOptimizedObject(img) THEN "optimized" ELSE "row"]
    /\ UNCHANGED <<rows, msgs, queue, up, wk, sem, wg, ctxDone, mainpc, call>>

\* lines 336-343: delete the optimized object; a failure is logged, the handler goes on
DeleteOptimized ==
    /\ del.pc = "optimized"
    /\ \E ok \in BOOLEAN :
          objects' = IF ok THEN MinioDeleteImage(objects, Get(del.img).OptimizedPath) ELSE objects
    /\ del' = [del EXCEPT !.pc = "row"]
    /\ UNCHANGED <<rows, msgs, queue, up, wk, sem, wg, ctxDone, mainpc, call>>

\* lines 346-355: delete the row; 500 when the statement fails or affects no
\* row, 200 otherwise
DeleteRow ==
    /\ del.pc = "row"
    /\ \E ok \in BOOLEAN :
          rows' = IF DeleteResponse(ok, RowsAffected(rows, Get(del.img).id)) = "200"
                  THEN DeleteImageRow(rows, Get(del.img).id)
                  ELSE rows
    /\ del' = DelIdle
    /\ UNCHANGED <<objects, msgs, queue, up, wk, sem, wg, ctxDone, mainpc, call>>

----------------------------------------------------------------------------
(* Worker process *)

Alive == mainpc \notin {"exited", "crashed", "panicked"}

Task(m) == Get(msgs[m].body.task)
Delivered(m) == IF m \in DOMAIN msgs THEN msgs[m].deliveries ELSE 0
TotalDeliveries == Delivered("m0") + Delivered("m1")
CurTask == Task(Get(wk.msg))
CurId == Get(CurTask.data.image_id).v

\* sem <- struct{}{} can proceed: the channel is open and has room
CanAcquire_NoCapacity(s) == ~s.closed
CanAcquire(s) == ~s.closed /\ s.count < s.cap
AcquireSlot(s) == [s EXCEPT !.count = @ + 1]
\* the deferred <-w.sem: takes a buffered element; a closed, empty channel yields at once
ReleaseSlot_Leak(s) == s
ReleaseSlot(s) == [s EXCEPT !.count = IF @ > 0 THEN @ - 1 ELSE 0]

\* What processImageResize does with the result of GetImageByID, lines 658-666:
\* the row is used for a metric only, processing goes on without it
AfterFetch_Permanent(fetch) ==
    IF fetch = "notfound"
    THEN [pc |-> "terminal", err |-> "image not found"]
    ELSE [pc |-> "process", err |-> Nil]
AfterFetch(fetch) == [pc |-> "process", err |-> Nil]

\* The context processMessage hands to the handler is the one Consume got from
\* Worker.Start, the root context of the process: processTask only adds a logger
TaskCtxDone == ctxDone

\* A repository or object-store call made with the task's context: it fails at
\* once when the context is cancelled, and may fail for its own reasons otherwise
CtxCall(ok) == ok /\ ~TaskCtxDone

\* processMessage lines 361-366: json.Unmarshal of the body; its error is
\* returned to Consume before the handler is called
ErrUnmarshal == "error unmarshaling message"
AfterUnmarshal_Drop(body) ==
    IF IsSome(body.task) THEN [pc |-> "invoke", err |-> Nil]
    ELSE [pc |-> "settle", err |-> Nil]
AfterUnmarshal(body) ==
    IF IsSome(body.task) THEN [pc |-> "invoke", err |-> Nil]
    ELSE [pc |-> "settle", err |-> ErrUnmarshal]

\* The select of Consume takes delivery m, its n-th; processMessage decodes the
\* body, and an undecodable body never reaches the handler
Take(m, n) ==
    /\ msgs' = [msgs EXCEPT ![m].deliveries = n]
    /\ queue' = queue \ {m}
    /\ wk' = [WkIdle EXCEPT !.pc = AfterUnmarshal(msgs[m].body).pc, !.msg = Some(m),
                            !.err = AfterUnmarshal(msgs[m].body).err]

\* RabbitMQClient.Consume, lines 312-325, and processMessage, lines 361-366
Receive ==
    /\ Alive
    /\ wk.pc = "select"
    /\ \E m \in queue :
          /\ TotalDeliveries < MaxDeliveries
          /\ Take(m, msgs[m].deliveries + 1)
    /\ UNCHANGED <<rows, objects, up, sem, wg, ctxDone, mainpc, del, call>>

\* processMessage line 373 and processTask line 511: the handler is called and
\* starts with wg.Add(1)
Invoke ==
    /\ Alive
    /\ wk.pc = "invoke"
    /\ wg' = wg + 1
    /\ wk' = [wk EXCEPT !.pc = "acquire", !.late = TaskCtxDone]
    /\ UNCHANGED <<rows, objects, msgs, queue, up, sem, ctxDone, mainpc, del, call>>

\* Consume, lines 314-318: the delivery channel is closed, because the AMQP
\* channel or the connection is gone: the goroutine returns while the process
\* keeps running.  A failed Ack or Nack has the same cause, so that the select
\* after it finds the channel closed
ChannelClosed ==
    /\ Alive
    /\ wk.pc = "select" \/ (wk.pc = "settled" /\ wk.lost)
    /\ wk' = [WkIdle EXCEPT !.pc = "exited", !.lost = TRUE]
    /\ UNCHANGED <<rows, objects, msgs, queue, up, sem, wg, ctxDone, mainpc, del, call>>

\* Consume, lines 351-353: the select takes ctx.Done()
LoopExit ==
    /\ Alive
    /\ wk.pc = "select"
    /\ ctxDone
    /\ wk' = [wk EXCEPT !.pc = "exited"]
    /\ UNCHANGED <<rows, objects, msgs, queue, up, sem, wg, ctxDone, mainpc, del, call>>

\* processTask, lines 522-529: the select takes the send
Acquire ==
    /\ Alive
    /\ wk.pc = "acquire"
    /\ CanAcquire(sem)
    /\ sem' = AcquireSlot(sem)
    /\ wk' = [wk EXCEPT !.pc = "dispatch", !.held = TRUE]
    /\ UNCHANGED <<rows, objects, msgs, queue, up, wg, ctxDone, mainpc, del, call>>

\* processTask, lines 530-532: the select takes ctx.Done()
AcquireCancelled ==
    /\ Alive
    /\ wk.pc = "acquire"
    /\ ctxDone
    /\ wk' = [wk EXCEPT !.pc = "wgdone", !.err = "context canceled"]
    /\ UNCHANGED <<rows, objects, msgs, queue, up, sem, wg, ctxDone, mainpc, del, call>>

\* processTask, line 523, after Stop closed the channel: the send on the closed
\* channel panics, and the panic unwinds through the deferred wg.Done() of line
\* 512, which wakes a Stop that is blocked in wg.Wait()
AcquirePanic ==
    /\ Alive
    /\ wk.pc = "acquire"
    /\ sem.closed
    /\ wg' = wg - 1
    /\ wk' = [wk EXCEPT !.pc = "panicking", !.err = "send on closed channel"]
    /\ mainpc' = IF mainpc = "waiting" /\ wg' = 0 THEN "woken" ELSE mainpc
    /\ UNCHANGED <<rows, objects, msgs, queue, up, sem, ctxDone, del, call>>

\* nothing recovers the panic of the consumer goroutine: the runtime ends the
\* process, unless main has returned before; the broker takes back the delivery
PanicExit ==
    /\ Alive
    /\ wk.pc = "panicking"
    /\ mainpc' = "crashed"
    /\ wk' = [wk EXCEPT !.pc = "exited"]
    /\ queue' = queue \cup {Get(wk.msg)}
    /\ UNCHANGED <<rows, objects, msgs, up, sem, wg, ctxDone, del, call>>

\* processImageResize lines 595-602: a failed update_status(processing) is
\* returned at once, wrapped
ErrStatusBeforeProcessing == "error updating image status before processing"
AfterProcessingWrite_Unchecked(ok) == [pc |-> "fetch", err |-> Nil]
AfterProcessingWrite_Continue(ok) == [pc |-> "fetch", err |-> IF ok THEN Nil ELSE ErrStatusBeforeProcessing]
AfterProcessingWrite(ok) ==
    IF ok THEN [pc |-> "fetch", err |-> Nil]
    ELSE [pc |-> "release", err |-> ErrStatusBeforeProcessing]

\* processTask lines 538-545 and processImageResize lines 567-602:
\* the type switch, the payload checks, update_status(processing)
Dispatch ==
    /\ Alive
    /\ wk.pc = "dispatch"
    /\ LET task == CurTask
           perr == IF task.type # TaskTypeResizeImage
                   THEN "unknown task type"
                   ELSE PayloadError(task.data)
       IN IF perr # Nil
          THEN /\ wk' = [wk EXCEPT !.pc = "release", !.err = perr]
               /\ rows' = rows
          ELSE \E ok \in BOOLEAN :
               LET next == AfterProcessingWrite(CtxCall(ok)) IN
               /\ rows' = IF CtxCall(ok)
                          THEN UpdateImageStatus(rows, CurId, StatusProcessing, EmptyText)
                          ELSE rows
               /\ wk' = [wk EXCEPT !.pc = next.pc, !.err = next.err,
                                   !.claimed = CtxCall(ok)]
    /\ UNCHANGED <<objects, msgs, queue, up, sem, wg, ctxDone, mainpc, del, call>>

\* processImageResize lines 656-662: GetImageByID
Fetch ==
    /\ Alive
    /\ wk.pc = "fetch"
    /\ \E ok \in BOOLEAN :
          LET fetch == GetImageByID(rows, CurId, CtxCall(ok))
              next == AfterFetch(fetch)
          IN wk' = [wk EXCEPT !.fetch = fetch, !.pc = next.pc, !.err = next.err]
    /\ UNCHANGED <<rows, objects, msgs, queue, up, sem, wg, ctxDone, mainpc, del, call>>

\* processImageResize line 666, the call of Processor.ProcessImage: its
\* requests to the object store are two waits, and the API process runs
\* between them.  First the original is fetched, read, resized and encoded
Process ==
    /\ Alive
    /\ wk.pc = "process"
    /\ \E getOk \in BOOLEAN, readOk \in BOOLEAN, encLen \in Lens :
          LET d == CurTask.data
              enc == ProcessImageEncode(objects, CurId, Get(d.original_path).v,
                                        Get(d.filename).v, EffectiveConfig(Get(d.config).v),
                                        [getOk |-> getOk, readOk |-> CtxCall(readOk),
                                         encLen |-> encLen])
          IN wk' = [wk EXCEPT !.pc = IF IsSome(enc.upload) THEN "upload" ELSE "terminal",
                              !.invoked = TRUE, !.err = enc.err, !.result = enc.result,
                              !.upload = enc.upload]
    /\ UNCHANGED <<rows, objects, msgs, queue, up, sem, wg, ctxDone, mainpc, del, call>>

\* then the encoding is stored, lines 164-181
ProcessUpload ==
    /\ Alive
    /\ wk.pc = "upload"
    /\ \E putOk \in BOOLEAN :
          LET res == ProcessImageStore(objects, wk, CtxCall(putOk))
          IN /\ objects' = res.objects
             /\ wk' = [wk EXCEPT !.pc = "terminal", !.err = res.err, !.result = res.result,
                                 !.upload = None]
    /\ UNCHANGED <<rows, msgs, queue, up, sem, wg, ctxDone, mainpc, del, call>>

\* processImageResize lines 667-688: update_status(failed) after a processing
\* error, update_optimized after a success
Terminal ==
    /\ Alive
    /\ wk.pc = "terminal"
    /\ \E ok \in BOOLEAN :
          IF wk.err # Nil
          THEN /\ rows' = IF CtxCall(ok)
                          THEN UpdateImageStatus(rows, CurId, StatusFailed, ProcessingErrMsg(wk.err))
                          ELSE rows
               /\ wk' = [wk EXCEPT !.pc = "release", !.termWrite = CtxCall(ok)]
          ELSE LET r == Get(wk.result) IN
               IF CtxCall(ok)
               THEN /\ rows' = UpdateImageOptimized(rows, CurId, r.OptimizedPath,
                                   r.OptimizedSize, r.OptimizedWidth, r.OptimizedHeight)
                    /\ wk' = [wk EXCEPT !.pc = "release", !.termWrite = TRUE]
               ELSE /\ rows' = rows
                    /\ wk' = [wk EXCEPT !.pc = "fallback", !.err = "error updating optimized image"]
    /\ UNCHANGED <<objects, msgs, queue, up, sem, wg, ctxDone, mainpc, del, call>>

\* processImageResize lines 689-698: update_status(failed) after update_optimized failed
Fallback ==
    /\ Alive
    /\ wk.pc = "fallback"
    /\ \E ok \in BOOLEAN :
          /\ rows' = IF CtxCall(ok)
                     THEN UpdateImageStatus(rows, CurId, StatusFailed, UpdateErrMsg(wk.err))
                     ELSE rows
          /\ wk' = [wk EXCEPT !.pc = "release", !.termWrite = CtxCall(ok)]
    /\ UNCHANGED <<objects, msgs, queue, up, sem, wg, ctxDone, mainpc, del, call>>

\* processTask lines 526-529: the deferred release of the slot
Release ==
    /\ Alive
    /\ wk.pc = "release"
    /\ sem' = ReleaseSlot(sem)
    /\ wk' = [wk EXCEPT !.pc = "wgdone", !.held = FALSE]
    /\ UNCHANGED <<rows, objects, msgs, queue, up, wg, ctxDone, mainpc, del, call>>

\* processTask line 512: the deferred wg.Done(); processTask returns
\* a counter that reaches zero wakes Stop when it is blocked in wg.Wait()
WgDone ==
    /\ Alive
    /\ wk.pc = "wgdone"
    /\ wg' = wg - 1
    /\ wk' = [wk EXCEPT !.pc = "settle"]
    /\ mainpc' = IF mainpc = "waiting" /\ wg' = 0 THEN "woken" ELSE mainpc
    /\ UNCHANGED <<rows, objects, msgs, queue, up, sem, ctxDone, del, call>>

\* Consume lines 326-349: Nack(false, true) on an error, Ack(false) otherwise
Acknowledgement_AlwaysAck(err) == "ack"
Acknowledgement(err) == IF err # Nil THEN "nack" ELSE "ack"

\* outcome is the call made; when it fails the error is logged only, the
\* delivery stays unsettled and the broker, whose channel is gone, takes it back
Settle ==
    /\ Alive
    /\ wk.pc = "settle"
    /\ \E ok \in BOOLEAN :
          LET m == Get(wk.msg)
              outcome == Acknowledgement(wk.err)
          IN /\ queue' = IF outcome = "nack" \/ ~ok THEN queue \cup {m} ELSE queue
             /\ wk' = [wk EXCEPT !.pc = "settled", !.outcome = outcome, !.lost = ~ok]
    /\ UNCHANGED <<rows, objects, msgs, up, sem, wg, ctxDone, mainpc, del, call>>

\* Consume line 312: the loop goes back to its select
Loop ==
    /\ Alive
    /\ wk.pc = "settled" /\ ~wk.lost
    /\ wk' = WkIdle
    /\ UNCHANGED <<rows, objects, msgs, queue, up, sem, wg, ctxDone, mainpc, del, call>>

----------------------------------------------------------------------------
(* Worker main, cmd/worker: signal, cancel(), Worker.Stop, return *)

\* <-quit; cancel()
Shutdown ==
    /\ mainpc = "running"
    /\ ctxDone' = TRUE
    /\ mainpc' = "cancelled"
    /\ UNCHANGED <<rows, objects, msgs, queue, up, wk, sem, wg, del, call>>

\* Worker.Stop line 504: close(w.sem)
StopClose ==
    /\ mainpc = "cancelled"
    /\ sem' = [sem EXCEPT !.closed = TRUE]
    /\ mainpc' = "waiting"
    /\ UNCHANGED <<rows, objects, msgs, queue, up, wk, wg, ctxDone, del, call>>

\* Worker.Stop line 505: w.wg.Wait() returns when the counter is zero
StopReturn ==
    /\ mainpc \in {"waiting", "woken"}
    /\ wg = 0
    /\ mainpc' = "stopped"
    /\ UNCHANGED <<rows, objects, msgs, queue, up, wk, sem, wg, ctxDone, del, call>>

\* Worker.Stop line 505 against processTask line 511: wg.Add(1) of a next task
\* runs while the woken Wait has not returned; Wait finds the counter in use
\* again and panics ("WaitGroup is reused before previous Wait has returned").
\* The panic unwinds through main's deferred calls (the closing of the queue
\* client, of the store client and of the pool), and the consumer goroutine
\* goes on meanwhile
StopPanic ==
    /\ mainpc = "woken"
    /\ wg > 0
    /\ mainpc' = "unwinding"
    /\ UNCHANGED <<rows, objects, msgs, queue, up, wk, sem, wg, ctxDone, del, call>>

\* main's deferred calls have run: the unrecovered panic of main ends the
\* process, the broker takes back an unsettled delivery
StopPanicExit ==
    /\ mainpc = "unwinding"
    /\ mainpc' = "panicked"
    /\ queue' = IF IsSome(wk.msg) /\ wk.pc # "settled" THEN queue \cup {Get(wk.msg)} ELSE queue
    /\ UNCHANGED <<rows, objects, msgs, up, wk, sem, wg, ctxDone, del, call>>

\* main returns: the process ends, the broker takes back an unsettled delivery
Exit ==
    /\ mainpc = "stopped"
    /\ mainpc' = "exited"
    /\ queue' = IF IsSome(wk.msg) /\ wk.pc # "settled" THEN queue \cup {Get(wk.msg)} ELSE queue
    /\ UNCHANGED <<rows, objects, msgs, up, wk, sem, wg, ctxDone, del, call>>

Next ==
    \/ UploadPut \/ UploadCreate \/ UploadPublish
    \/ DeleteGet \/ DeleteOriginal \/ DeleteOptimized \/ DeleteRow
    \/ Receive \/ Invoke \/ ChannelClosed \/ LoopExit
    \/ Acquire \/ AcquireCancelled \/ AcquirePanic \/ PanicExit
    \/ Dispatch \/ Fetch \/ Process \/ ProcessUpload \/ Terminal \/ Fallback
    \/ Release \/ WgDone \/ Settle \/ Loop
    \/ Shutdown \/ StopClose \/ StopReturn \/ StopPanic \/ StopPanicExit \/ Exit

Spec == Init /\ [][Next]_vars

\* The steps of the consumer goroutine that return by themselves: all but the
\* first part of the processor call, which decodes, resizes and encodes without
\* looking at the context, and but the loss of the broker's channel while the
\* consumer waits in its select
PromptStep ==
    \/ LoopExit \/ Invoke \/ Acquire \/ AcquireCancelled \/ AcquirePanic \/ PanicExit
    \/ Dispatch \/ Fetch \/ ProcessUpload \/ Terminal \/ Fallback
    \/ Release \/ WgDone \/ Settle \/ Loop
    \/ (ChannelClosed /\ wk.pc = "settled")

\* Both goroutines are scheduled; nothing makes a processor call return
SpecStop ==
    /\ Init /\ [][Next]_vars
    /\ WF_vars(StopClose) /\ WF_vars(StopReturn) /\ WF_vars(Exit) /\ WF_vars(StopPanicExit)
    /\ WF_vars(PromptStep)

----------------------------------------------------------------------------
(* A worker that keeps running, with a broker that redelivers without end *)

MsgIds == {"m0", "m1"}

\* The broker delivers m once more; the delivery count is kept up to MaxDeliveries
Redeliver(m) ==
    /\ wk.pc = "select"
    /\ m \in queue
    /\ Take(m, IF msgs[m].deliveries < MaxDeliveries THEN msgs[m].deliveries + 1
               ELSE msgs[m].deliveries)
    /\ UNCHANGED <<rows, objects, up, sem, wg, ctxDone, mainpc, del, call>>

Redelivery == \E m \in MsgIds : Redeliver(m)

TaskStep ==
    \/ Invoke \/ Acquire \/ Dispatch \/ Fetch \/ Process \/ ProcessUpload \/ Terminal \/ Fallback
    \/ Release \/ WgDone \/ (Settle /\ ~wk'.lost) \/ Loop

\* No shutdown signal and no DELETE request arrives, and the broker's channel
\* stays open
NextLive ==
    \/ UploadPut \/ UploadCreate \/ UploadPublish
    \/ Redelivery
    \/ TaskStep

\* One slot, which is all the single consumer goroutine ever takes, and a
\* queue that holds the tasks of the upload handler only
InitLive ==
    /\ Init
    /\ sem.cap = 1
    /\ msgs = <<>>

\* Errors of the processor that come from a failed request, not from the task
TransientProcessorErrs == {"error getting image from MinIO", "error uploading processed image"}

\* The first part of a processor call whose requests were served: the read of
\* the body fails only when the original is not stored
ServedProcess ==
    /\ Process
    /\ wk'.err \notin TransientProcessorErrs
    /\ wk'.err = "error reading image data" =>
          Get(CurTask.data.original_path).v \notin DOMAIN objects

\* Fair redelivery of every message, a scheduled consumer goroutine, and a
\* database and an object store that do not fail for ever: a statement that is
\* tried again and again goes through again and again, and so does a
\* processor call that can succeed
SpecLive ==
    /\ InitLive /\ [][NextLive]_vars
    /\ \A m \in MsgIds : SF_vars(Redeliver(m))
    /\ WF_vars(TaskStep)
    /\ SF_vars(Dispatch /\ wk'.pc = "fetch")
    /\ SF_vars(ServedProcess)
    /\ SF_vars(ProcessUpload /\ wk'.err = Nil)
    /\ SF_vars(Terminal /\ wk.err = Nil /\ wk'.termWrite)
    /\ SF_vars(Terminal /\ wk.err # Nil /\ wk'.termWrite)

----------------------------------------------------------------------------
(* Functions taken on their own.  The pipeline is at rest in these            *)
(* specifications: nothing uploaded, nothing queued.                          *)

AtRestButRows ==
    /\ msgs = <<>>
    /\ queue = {}
    /\ up = [pc |-> "idle", file |-> None, query |-> None, cleanup |-> "none"]
    /\ wk = WkIdle
    /\ sem = [cap |-> 1, count |-> 0, closed |-> FALSE]
    /\ wg = 0
    /\ ctxDone = FALSE
    /\ mainpc = "running"
    /\ del = DelIdle

AtRest == rows = <<>> /\ AtRestButRows

Pipeline == <<rows, objects, msgs, queue, up, wk, sem, wg, ctxDone, mainpc, del>>

----------------------------------------------------------------------------
(* Queue client at startup: rabbitmq.NewClient and connect, lines 135-257 *)

maxRetries == 5
retryDelaySeconds == 1    \* retryDelay := time.Second

\* What one amqp.Dial gives: a live connection and no error; no connection and
\* an error, when the broker is not reached; or a connection that is already
\* closed and an error, when the broker is reached and refuses the handshake
DialOutcomes == {"ok", "unreachable", "refused"}
DialConn(outcome) ==
    IF outcome = "ok" THEN "live" ELSE IF outcome = "refused" THEN "closed" ELSE "nil"
DialErr(outcome) == IF outcome = "ok" THEN Nil ELSE "dial error"

\* dials[k]: the outcome of the k-th amqp.Dial, if it is made
InitConnect ==
    /\ AtRest
    /\ objects = ForeignObjects
    /\ \E dials \in [1..maxRetries -> DialOutcomes] :
          call = [fn |-> "connect", pc |-> "loop", dials |-> dials, i |-> 0,
                  retryDelay |-> retryDelaySeconds, slept |-> <<>>,
                  conn |-> "nil", err |-> Nil, client |-> "none"]

\* one iteration of the loop, lines 232-254: the return is taken when err != nil,
\* with the connection the failed Dial gave and a nil error; after a Dial that
\* succeeded the loop warns, sleeps and doubles the delay
ConnectAttempt ==
    /\ call.fn = "connect" /\ call.pc = "loop"
    /\ call.i < maxRetries
    /\ LET outcome == call.dials[call.i + 1] IN
       call' = IF DialErr(outcome) # Nil
               THEN [call EXCEPT !.pc = "returned", !.i = call.i + 1,
                                 !.conn = DialConn(outcome), !.err = Nil]
               ELSE [call EXCEPT !.i = call.i + 1, !.conn = DialConn(outcome),
                                 !.slept = Append(call.slept, call.retryDelay),
                                 !.retryDelay = 2 * call.retryDelay]
    /\ UNCHANGED Pipeline

\* line 256: return nil, fmt.Errorf("failed to connect ... %w", maxRetries, err)
ConnectGiveUp ==
    /\ call.fn = "connect" /\ call.pc = "loop"
    /\ call.i = maxRetries
    /\ call' = [call EXCEPT !.pc = "returned", !.conn = "nil",
                            !.err = "failed to connect to RabbitMQ"]
    /\ UNCHANGED Pipeline

\* NewClient lines 138-148: the error of connect is returned; otherwise
\* conn.Channel() is called, which dereferences the connection, fails on a
\* closed one and may fail on a live one
NewClient ==
    /\ call.fn = "connect" /\ call.pc = "returned"
    /\ \E channelOk \in BOOLEAN :
          call' = [call EXCEPT !.pc = "done",
                     !.client = IF call.err # Nil THEN "failed to connect to RabbitMQ"
                                ELSE IF call.conn = "nil" THEN "panic"
                                ELSE IF call.conn = "live" /\ channelOk THEN "client"
                                ELSE "error creating channel"]
    /\ UNCHANGED Pipeline

NextConnect == ConnectAttempt \/ ConnectGiveUp \/ NewClient

SpecConnect == InitConnect /\ [][NextConnect]_vars

----------------------------------------------------------------------------
(* Processor.ProcessImage on one stored original, with any configuration *)

ProcessorConfigs ==
    [MaxWidth : 0..MaxDim, MaxHeight : 0..MaxDim, Quality : {defaultQuality},
     OptimizeStorage : BOOLEAN]

InitProcess ==
    /\ AtRest
    /\ \E kind \in {"jpeg", "png"}, w \in Dims \cup {WideSide}, h \in Dims \cup {WideSide},
          len \in Lens, config \in ProcessorConfigs :
          LET fileName == FileName(kind)
              originalPath == GenerateObjectName(ImageId, fileName)
              original == Content(kind, w, h, len)
          IN /\ objects = MinioUploadImage(ForeignObjects, originalPath, original)
             /\ call = [fn |-> "ProcessImage", pc |-> "ready",
                        originalPath |-> originalPath, fileName |-> fileName,
                        original |-> original, config |-> config,
                        encLen |-> 0, err |-> Nil, result |-> None, upload |-> None]

\* lines 48-162: the original is fetched, read, resized and encoded
RunProcessImage ==
    /\ call.fn = "ProcessImage" /\ call.pc = "ready"
    /\ \E getOk \in BOOLEAN, readOk \in BOOLEAN, encLen \in Lens :
          LET enc == ProcessImageEncode(objects, ImageId, call.originalPath, call.fileName,
                                        call.config,
                                        [getOk |-> getOk, readOk |-> readOk, encLen |-> encLen])
          IN call' = [call EXCEPT !.pc = IF IsSome(enc.upload) THEN "upload" ELSE "done",
                                  !.encLen = encLen, !.err = enc.err,
                                  !.result = enc.result, !.upload = enc.upload]
    /\ UNCHANGED Pipeline

\* lines 164-181: the encoding is stored
RunProcessUpload ==
    /\ call.fn = "ProcessImage" /\ call.pc = "upload"
    /\ \E putOk \in BOOLEAN :
          LET res == ProcessImageStore(objects, call, putOk)
          IN /\ objects' = res.objects
             /\ call' = [call EXCEPT !.pc = "done", !.err = res.err, !.result = res.result,
                                     !.upload = None]
    /\ UNCHANGED <<rows, msgs, queue, up, wk, sem, wg, ctxDone, mainpc, del>>

NextProcess == RunProcessImage \/ RunProcessUpload

SpecProcess == InitProcess /\ [][NextProcess]_vars

----------------------------------------------------------------------------
(* The target dimensions of ProcessImage, lines 86-109, on their own *)

Sides == 1..MaxSide

InitScale ==
    /\ AtRest
    /\ objects = ForeignObjects
    /\ \E W \in Sides, H \in Sides, maxW \in Sides : \E maxH \in {maxW, MaxSide} :
          call = [fn |-> "TargetDims", pc |-> "ready", W |-> W, H |-> H,
                  maxW |-> maxW, maxH |-> maxH, dims |-> <<W, H>>]

RunTargetDims ==
    /\ call.fn = "TargetDims" /\ call.pc = "ready"
    /\ call' = [call EXCEPT !.pc = "done",
                            !.dims = TargetDims(call.W, call.H, call.maxW, call.maxH)]
    /\ UNCHANGED Pipeline

NextScale == RunTargetDims

SpecScale == InitScale /\ [][NextScale]_vars

----------------------------------------------------------------------------
(* The configuration of one task from its publisher to the JPEG encoder:      *)
(* the handler's query parameters or a foreign envelope, the JSON round trip, *)
(* processImageResize lines 604-647, jpeg.Encode                              *)

\* a parameter is a text that is not a number (None) or a number
RawSizes == {None, Some(-1), Some(0), Some(1), Some(MaxDim)}
RawQualities == {None, Some(-1), Some(0), Some(1), Some(maxQuality), Some(QualityOver)}

InitConfig ==
    /\ AtRest
    /\ objects = ForeignObjects
    /\ \E raw \in [max_width : RawSizes, max_height : RawSizes, quality : RawQualities] :
          call = [fn |-> "config", pc |-> "request", raw |-> raw, origin |-> "none",
                  configData |-> None, config |-> None, quality |-> None]

\* raw holds the query parameters of an upload
PublishUpload ==
    /\ call.fn = "config" /\ call.pc = "request"
    /\ LET fileName == FileName("jpeg")
           task == UploadTask(ImageId, GenerateObjectName(ImageId, fileName), fileName,
                              [k \in DOMAIN call.raw |-> Atoi(call.raw[k])])
       IN call' = [call EXCEPT !.pc = "queued", !.origin = "upload",
                               !.configData = Some(Get(JsonRoundTrip(task).data.config).v)]
    /\ UNCHANGED Pipeline

\* raw holds the config entries another publisher wrote: a number, or no entry
PublishForeign ==
    /\ call.fn = "config" /\ call.pc = "request"
    /\ LET entry(o) == IF IsSome(o) THEN Val("int", Get(o)) ELSE None
           config == Val("map", [max_width |-> entry(call.raw.max_width),
                                 max_height |-> entry(call.raw.max_height),
                                 quality |-> entry(call.raw.quality),
                                 optimize_storage |-> None])
       IN call' = [call EXCEPT !.pc = "queued", !.origin = "foreign",
                               !.configData = Some(Get(JsonConfig(config)).v)]
    /\ UNCHANGED Pipeline

\* processImageResize lines 604-647
WorkerConfig ==
    /\ call.fn = "config" /\ call.pc = "queued"
    /\ call' = [call EXCEPT !.pc = "configured",
                            !.config = Some(EffectiveConfig(Get(call.configData)))]
    /\ UNCHANGED Pipeline

\* image/jpeg: Encode takes a Quality below 1 as 1 and above 100 as 100
JpegEncodeQuality(q) == IF q < 1 THEN 1 ELSE IF q > maxQuality THEN maxQuality ELSE q

\* ProcessImage lines 141-143: jpeg.Encode with Quality: config.Quality
EncodeJpeg ==
    /\ call.fn = "config" /\ call.pc = "configured"
    /\ call' = [call EXCEPT !.pc = "encoded",
                            !.quality = Some(JpegEncodeQuality(Get(call.config).Quality))]
    /\ UNCHANGED Pipeline

NextConfig == PublishUpload \/ PublishForeign \/ WorkerConfig \/ EncodeJpeg

SpecConfig == InitConfig /\ [][NextConfig]_vars

----------------------------------------------------------------------------
(* Repository.UpdateImageOptimized applied to a table of one row, twice *)

\* the rows the statements of the repository can leave for an upload
StoredRows ==
    LET fileName == FileName("jpeg")
        originalPath == GenerateObjectName(ImageId, fileName)
        new == NewImageRow(fileName, MaxLen, MaxDim, 1, "jpeg", originalPath)
    IN  {new}
        \cup {UpdateImageStatus((ImageId :> new), ImageId, st, e)[ImageId] :
                 st \in {StatusProcessing, StatusFailed}, e \in {EmptyText, Errorf("x")}}
        \cup {UpdateImageOptimized(UpdateImageStatus((ImageId :> new), ImageId, st, e),
                                   ImageId, path, MaxLen, MaxDim, 1)[ImageId] :
                 st \in {StatusProcessing, StatusFailed}, e \in {EmptyText, Errorf("x")},
                 path \in {originalPath, OptimizedPath(ImageId, fileName)}}

\* the structs a caller of UpdateImage can pass for an upload
Images ==
    LET fileName == FileName("jpeg")
        originalPath == GenerateObjectName(ImageId, fileName)
    IN  [id : Uuids, original_name : {fileName}, original_size : {MaxLen},
         original_width : {MaxDim}, original_height : {1}, original_format : {"jpeg"},
         original_path : {originalPath},
         optimized_path : {EmptyText, OptimizedPath(ImageId, fileName)},
         optimized_size : {0, MaxLen}, optimized_width : {0}, optimized_height : {0},
         status : {StatusPending, StatusProcessing, StatusCompleted, StatusFailed},
         error : {EmptyText, Errorf("x")}]

InitRepository ==
    /\ AtRestButRows
    /\ objects = ForeignObjects
    /\ \E row \in StoredRows : rows = (ImageId :> row)
    /\ \/ \E id \in Uuids, kind \in {"jpeg", "png"}, optimized \in BOOLEAN,
             size \in Lens, width \in Dims, height \in Dims :
             call = [fn |-> "UpdateImageOptimized", applied |-> 0, id |-> id,
                     path |-> IF optimized THEN OptimizedPath(ImageId, FileName(kind))
                              ELSE GenerateObjectName(ImageId, FileName(kind)),
                     size |-> size, width |-> width, height |-> height,
                     before |-> rows, once |-> rows]
       \/ \E image \in Images :
             call = [fn |-> "UpdateImage", applied |-> 0, image |-> image, before |-> rows]

ApplyUpdateOptimized ==
    /\ call.fn = "UpdateImageOptimized" /\ call.applied < 2
    /\ rows' = UpdateImageOptimized(rows, call.id, call.path, call.size, call.width, call.height)
    /\ call' = [call EXCEPT !.applied = call.applied + 1,
                            !.once = IF call.applied = 0 THEN rows' ELSE call.once]
    /\ UNCHANGED <<objects, msgs, queue, up, wk, sem, wg, ctxDone, mainpc, del>>

\* Repository.UpdateImage, which no handler and no task of the two programs calls
ApplyUpdateImage ==
    /\ call.fn = "UpdateImage" /\ call.applied = 0
    /\ rows' = UpdateImage(rows, call.image)
    /\ call' = [call EXCEPT !.applied = 1]
    /\ UNCHANGED <<objects, msgs, queue, up, wk, sem, wg, ctxDone, mainpc, del>>

NextRepository == ApplyUpdateOptimized \/ ApplyUpdateImage

SpecRepository == InitRepository /\ [][NextRepository]_vars

----------------------------------------------------------------------------
(* Ingestion handler: ImageHandler.ListImages, lines 262-300 *)

\* the parameters limit and page: a text that is not a number (None) or a number
RawLimits == {None} \cup {Some(n) : n \in {-1, 0, 1, 2, defaultLimit, maxLimit - 1,
                                           maxLimit, maxLimit + 1}}
RawPages == {None} \cup {Some(n) : n \in -1..MaxPage}

InitList ==
    /\ AtRest
    /\ objects = ForeignObjects
    /\ \E limit \in RawLimits, page \in RawPages :
          call = [fn |-> "ListImages", pc |-> "request",
                  raw |-> [limit |-> limit, page |-> page],
                  limit |-> 0, offset |-> 0, resp |-> "none"]

\* lines 266-287: the error of Atoi is dropped, so a text counts as 0; then the
\* validation, the offset and the call of Repository.ListImages(limit, offset)
ListImages ==
    /\ call.fn = "ListImages" /\ call.pc = "request"
    /\ LET limit0 == Atoi(call.raw.limit)
           page0 == Atoi(call.raw.page)
           limit == IF limit0 <= 0 THEN defaultLimit
                    ELSE IF limit0 > maxLimit THEN maxLimit ELSE limit0
           page == IF page0 <= 0 THEN 1 ELSE page0
       IN \E ok \in BOOLEAN :
             call' = [call EXCEPT !.pc = "done", !.limit = limit,
                                  !.offset = (page - 1) * limit,
                                  !.resp = IF ok THEN "200" ELSE "500"]
    /\ UNCHANGED Pipeline

NextList == ListImages

SpecList == InitList /\ [][NextList]_vars

----------------------------------------------------------------------------
(* ImageHandler.DeleteImage: several requests in flight, each a goroutine of  *)
(* the HTTP server, with their responses                                      *)

Requests == 1..MaxRequests

\* the table before the requests: no row, the row of an upload not yet
\* processed, a completed row with an optimized object, a completed row whose
\* optimized_path is the original's
DeleteTables ==
    LET fileName == FileName("jpeg")
        originalPath == GenerateObjectName(ImageId, fileName)
        new == (ImageId :> NewImageRow(fileName, MaxLen, MaxDim, 1, "jpeg", originalPath))
        claimed == UpdateImageStatus(new, ImageId, StatusProcessing, EmptyText)
    IN  {<<>>, new,
         UpdateImageOptimized(claimed, ImageId, OptimizedPath(ImageId, fileName), 1, MaxDim, 1),
         UpdateImageOptimized(claimed, ImageId, originalPath, MaxLen, MaxDim, 1)}

StoredObjects(r) ==
    IF ImageId \notin DOMAIN r THEN ForeignObjects
    ELSE LET row == r[ImageId]
             original == MinioUploadImage(ForeignObjects, row.original_path,
                            Content("jpeg", row.original_width, row.original_height,
                                    row.original_size))
         IN  IF IsSome(row.optimized_path) /\ Get(row.optimized_path) # row.original_path
             THEN MinioUploadImage(original, Get(row.optimized_path),
                     Content("jpeg", Get(row.optimized_width), Get(row.optimized_height),
                             Get(row.optimized_size)))
             ELSE original

NewRequest(id) ==
    [pc |-> "request", id |-> id, img |-> None, triedOriginal |-> FALSE,
     triedOptimized |-> FALSE, affected |-> -1, resp |-> "none"]

InitDelete ==
    /\ AtRestButRows
    /\ rows \in DeleteTables
    /\ objects = StoredObjects(rows)
    /\ \E ids \in [Requests -> Uuids] :
          call = [fn |-> "DeleteImage", req |-> [k \in Requests |-> NewRequest(ids[k])]]

Req(k) == call.req[k]

\* lines 319-326
RequestGet(k) ==
    /\ call.fn = "DeleteImage" /\ Req(k).pc = "request"
    /\ \E ok \in BOOLEAN :
          call' = IF GetImageByID(rows, Req(k).id, ok) = "found"
                  THEN [call EXCEPT !.req[k].pc = "original",
                                    !.req[k].img = Some(ImageOf(rows, Req(k).id))]
                  ELSE [call EXCEPT !.req[k].pc = "done", !.req[k].resp = "404"]
    /\ UNCHANGED Pipeline

\* lines 328-333
RequestOriginal(k) ==
    /\ call.fn = "DeleteImage" /\ Req(k).pc = "original"
    /\ \E ok \in BOOLEAN :
          objects' = IF ok THEN MinioDeleteImage(objects, Get(Req(k).img).OriginalPath)
                     ELSE objects
    /\ call' = [call EXCEPT !.req[k].triedOriginal = TRUE,
                            !.req[k].pc = IF HasOptimizedObject(Get(Req(k).img))
                                          THEN "optimized" ELSE "row"]
    /\ UNCHANGED <<rows, msgs, queue, up, wk, sem, wg, ctxDone, mainpc, del>>

\* lines 336-343
RequestOptimized(k) ==
    /\ call.fn = "DeleteImage" /\ Req(k).pc = "optimized"
    /\ \E ok \in BOOLEAN :
          objects' = IF ok THEN MinioDeleteImage(objects, Get(Req(k).img).OptimizedPath)
                     ELSE objects
    /\ call' = [call EXCEPT !.req[k].triedOptimized = TRUE, !.req[k].pc = "row"]
    /\ UNCHANGED <<rows, msgs, queue, up, wk, sem, wg, ctxDone, mainpc, del>>

\* lines 346-355
RequestRow(k) ==
    /\ call.fn = "DeleteImage" /\ Req(k).pc = "row"
    /\ \E ok \in BOOLEAN :
          LET affected == IF ok THEN RowsAffected(rows, Req(k).id) ELSE -1
              resp == DeleteResponse(ok, affected)
          IN /\ rows' = IF resp = "200" THEN DeleteImageRow(rows, Req(k).id) ELSE rows
             /\ call' = [call EXCEPT !.req[k].pc = "done", !.req[k].affected = affected,
                                     !.req[k].resp = resp]
    /\ UNCHANGED <<objects, msgs, queue, up, wk, sem, wg, ctxDone, mainpc, del>>

NextDelete ==
    \E k \in Requests :
        RequestGet(k) \/ RequestOriginal(k) \/ RequestOptimized(k) \/ RequestRow(k)

SpecDelete == InitDelete /\ [][NextDelete]_vars

----------------------------------------------------------------------------
(* Properties *)

Terminal_Statuses == {StatusCompleted, StatusFailed}
Settled == wk.pc = "settled"
Holders == IF wk.held THEN 1 ELSE 0
InProcessTask == wk.pc \in {"acquire", "panicking", "dispatch", "fetch", "process", "upload", "terminal",
                            "fallback", "release", "wgdone"}

ProcessorPermanentErrs == {"error decoding image", "unsupported image format"}
PayloadErrs == {"missing or invalid image_id in task data",
                "missing or invalid original_path in task data",
                "missing or invalid filename in task data",
                "missing or invalid config in task data",
                "invalid image ID format"}
PermanentErrs == ProcessorPermanentErrs \cup PayloadErrs \cup {"unknown task type"}

\* C1: once a row is completed or failed, no step changes its status to another value.
C1_TerminalAbsorbing ==
    [][\A id \in DOMAIN rows :
          (rows[id].status \in Terminal_Statuses /\ id \in DOMAIN rows')
              => rows'[id].status = rows[id].status]_vars

\* C2: every completed row has an optimized_path and optimized size, width and
\* height greater than zero.
C2_CompletedHasOptimized ==
    \A id \in DOMAIN rows :
        rows[id].status = StatusCompleted =>
            /\ IsSome(rows[id].optimized_path)
            /\ IsSome(rows[id].optimized_size) /\ Get(rows[id].optimized_size) > 0
            /\ IsSome(rows[id].optimized_width) /\ Get(rows[id].optimized_width) > 0
            /\ IsSome(rows[id].optimized_height) /\ Get(rows[id].optimized_height) > 0

\* C3: every failed row has a non-empty error text.
C3_FailedHasError ==
    \A id \in DOMAIN rows :
        rows[id].status = StatusFailed =>
            IsSome(rows[id].error) /\ Get(rows[id].error) # EmptyText

C3_Witness == \E id \in DOMAIN rows : rows[id].status = StatusFailed

\* C4: a delivery is acked exactly when its terminal database write succeeded or
\* its task is permanently unprocessable, and nacked otherwise.
C4_AckIffTerminalOrPermanent ==
    Settled => (wk.outcome = "ack" <=> (wk.termWrite \/ wk.err \in PermanentErrs))

\* C5: a delivery whose processing failed with a decode or unsupported-format
\* error is acked.
C5_PermanentProcessorErrorAcked ==
    (Settled /\ wk.err \in ProcessorPermanentErrs) => wk.outcome = "ack"

\* C6: a delivery whose payload lacks a field, has one of the wrong type or has
\* an invalid image id is acked.
C6_BadPayloadAcked ==
    (Settled /\ wk.err \in PayloadErrs) => wk.outcome = "ack"

\* C7: a task of an unknown type is delivered to the handler at most once.
C7_UnknownTypeDeliveredOnce ==
    \A m \in DOMAIN msgs :
        (IsSome(msgs[m].body.task) /\ Task(m).type # TaskTypeResizeImage)
            => msgs[m].deliveries <= 1

\* C8 as claimed: when the fetch finds no row the processor is not invoked and
\* the delivery is acked.
C8_MissingRowIsPermanent ==
    wk.fetch = "notfound" => (~wk.invoked /\ (Settled => wk.outcome = "ack"))

\* C8 amended: when the fetch finds no row the delivery goes on as with a row:
\* the next step is the processor call, and the delivery is acked exactly when
\* the processor and update_optimized returned no error.
C8_MissingRowProcessed ==
    wk.fetch = "notfound" =>
        /\ wk.pc \in {"process", "upload", "terminal", "fallback", "release", "wgdone",
                     "settle", "settled"}
        /\ wk.pc = "process" => wk.err = Nil
        /\ wk.pc # "process" => wk.invoked
        /\ Settled => (wk.outcome = "ack" <=> wk.err = Nil)

C8_Witness == wk.fetch = "notfound" /\ Settled /\ wk.outcome = "ack"

\* C9: the number of tasks holding a semaphore slot, and the number of slots
\* taken, never exceed MaxWorkers.
C9_SlotsBounded == Holders <= sem.cap /\ sem.count <= sem.cap

C9_Witness == wk.held /\ sem.cap >= 1 /\ sem.count = sem.cap

\* C10: the slots taken are exactly those of the running processTask call, and
\* a call that has returned, or was never started, leaves the semaphore empty.
C10_NoSlotLeaked ==
    /\ sem.count = Holders
    /\ wk.pc \in {"wgdone", "settle", "settled", "select", "exited"} => sem.count = 0

C10_Witness == wk.pc = "wgdone" /\ wk.invoked /\ wk.err # Nil /\ sem.closed /\ sem.count = 0

----------------------------------------------------------------------------
(* Concurrency and shutdown *)

StopReturned == mainpc \in {"stopped", "exited"}
Published == "m1" \in DOMAIN msgs
OriginalPresent(id) == rows[id].original_path \in DOMAIN objects

\* C11: the consumer loop dispatches into a parallel pool: with MaxWorkers >= 2,
\* while one task holds a slot and another message is ready for delivery, the
\* loop can take that delivery, so that a second task comes to hold a slot at
\* the same time.
C11_ParallelDispatch ==
    (Alive /\ sem.cap >= 2 /\ wk.held /\ queue # {} /\ TotalDeliveries < MaxDeliveries)
        => ENABLED Receive

\* C12: no step cancels the context of a task that holds its slot and whose
\* context is not cancelled: the shutdown leaves the context of a task in
\* flight alone.
C12_InFlightContextKept ==
    [][(wk.held /\ ~TaskCtxDone) => ~TaskCtxDone']_vars

\* C13: once the root context is cancelled, the consumer loop takes no further
\* delivery and begins no handler invocation.
C13_NoReceiveAfterCancel ==
    [][(ctxDone /\ wk.pc = "select") => wk'.pc \in {"select", "exited"}]_vars

\* C14: once Worker.Stop has returned, no processTask call is running.
C14_StopWaitsForTasks == StopReturned => ~InProcessTask

\* C15: after the shutdown signal the worker process eventually ends, even
\* when the task in flight never finishes.
C15_ShutdownTerminates == ctxDone ~> (mainpc \in {"exited", "crashed", "panicked"})

\* C16: a processTask call that started with the context already cancelled
\* acquires no slot, reaches no repository or object-store call, returns the
\* cancellation error, and its delivery is nacked.
C16_CancelledBeforeStart ==
    wk.late =>
        /\ ~wk.held
        /\ wk.pc \in {"acquire", "wgdone", "settle", "settled"}
        /\ wk.pc # "acquire" => wk.err = "context canceled"
        /\ Settled => wk.outcome = "nack"

\* C17: a delivery gets no acknowledgement before its handler has returned, and
\* exactly one after it: an ack when the handler returned no error, which takes
\* the message off the queue, a nack with requeue when it returned an error,
\* which puts the message back on the queue.  The one call is made also when
\* the broker's channel is gone; it then fails and the broker keeps the message.
C17_OneAcknowledgement ==
    /\ ~Settled => wk.outcome = "none"
    /\ Settled =>
          /\ wk.outcome = (IF wk.err = Nil THEN "ack" ELSE "nack")
          /\ Get(wk.msg) \in queue <=> (wk.outcome = "nack" \/ wk.lost)

C17_Witness ==
    /\ Settled /\ wk.outcome = "ack" /\ wk.termWrite /\ ~wk.lost /\ Get(wk.msg) \notin queue

\* C18: under fair redelivery to a running worker, once the task of an image is
\* published, the row of the image is eventually completed for ever or failed
\* for ever.
C18_EventuallyTerminalForEver ==
    [](Published =>
          \/ <>[](ImageId \in DOMAIN rows => rows[ImageId].status = StatusCompleted)
          \/ <>[](ImageId \in DOMAIN rows => rows[ImageId].status = StatusFailed))

\* C19: the row of an upload is inserted only when the put of its original
\* succeeded, the object being in the store at that moment, and its task is
\* published only when the insert succeeded, the row being in the table.
C19_UploadOrdered ==
    [][/\ (ImageId \notin DOMAIN rows /\ ImageId \in DOMAIN rows')
              => (up.pc = "stored" /\ rows'[ImageId].original_path \in DOMAIN objects)
       /\ (~Published /\ Published')
              => (up.pc = "created" /\ ImageId \in DOMAIN rows /\ OriginalPresent(ImageId))]_vars

C19_Witness == Published /\ ImageId \in DOMAIN rows /\ OriginalPresent(ImageId) /\ up.pc = "202"

\* C20: whenever no DELETE request is under way, the original_path of every
\* row names an object that is in the store.
C20_OriginalExists ==
    del.pc = "idle" => \A id \in DOMAIN rows : OriginalPresent(id)

\* C21: once the insert of the upload's row has failed, the cleanup delete of
\* the original has been attempted (and the object is gone when it succeeded),
\* the request has answered 500 whatever the cleanup did, no task was
\* published and the generated id has no row.
C21_InsertFailureCleansUp ==
    up.cleanup # "none" =>
        /\ up.pc = "500"
        /\ ~Published
        /\ ImageId \notin DOMAIN rows
        /\ up.cleanup = "deleted" =>
              GenerateObjectName(ImageId, FileName(Get(up.file).kind)) \notin DOMAIN objects

C21_Witness ==
    /\ up.cleanup = "failed" /\ up.pc = "500"
    /\ GenerateObjectName(ImageId, FileName(Get(up.file).kind)) \in DOMAIN objects

\* C22: the step in which the publish of the upload's task fails answers 202
\* (status pending), changes neither the table nor the bucket, so the row and the
\* original object are still there, and puts no task of the upload in the queue.
C22_PublishFailureAccepted ==
    [][(up.pc = "created" /\ up'.pc # "created" /\ ~Published') =>
          /\ up'.pc = "202"
          /\ rows' = rows /\ ImageId \in DOMAIN rows'
          /\ objects' = objects /\ OriginalPresent(ImageId)'
          /\ msgs' = msgs /\ queue' = queue /\ "m1" \notin queue']_vars

C22_Witness ==
    /\ up.pc = "202" /\ ~Published
    /\ ImageId \in DOMAIN rows /\ OriginalPresent(ImageId)
    /\ rows[ImageId].status = StatusPending

\* C23: a delivery whose update_status(processing) failed ends there: it only
\* releases its slot and settles; the processor is not invoked (so no object is
\* written), the row is not read or written again, and the message is nacked
\* with requeue.
C23_ProcessingWriteFailureEnds ==
    wk.err = ErrStatusBeforeProcessing =>
        /\ wk.pc \in {"release", "wgdone", "settle", "settled"}
        /\ ~wk.invoked /\ wk.result = None
        /\ wk.fetch = "none"
        /\ ~wk.termWrite
        /\ Settled => (wk.outcome = "nack" /\ Get(wk.msg) \in queue)

C23_Witness ==
    /\ Settled /\ wk.err = ErrStatusBeforeProcessing /\ wk.outcome = "nack"
    /\ ~wk.late /\ ~ctxDone

\* C24: connect has dialled at most maxRetries times when it returns, having
\* slept 1s, 2s, 4s, ... between the dials; when one of the dials made reached
\* the broker it returns right after the first such dial, with a live
\* connection and no error; otherwise it has made all maxRetries dials and
\* returns an error and no connection.
Dialled == {k \in 1..call.i : call.dials[k] = "ok"}
C24_ConnectRetries ==
    (call.fn = "connect" /\ call.pc = "returned") =>
        /\ call.i <= maxRetries
        /\ \A k \in 1..Len(call.slept) : call.slept[k] = retryDelaySeconds * Pow2[k - 1]
        /\ IF Dialled # {}
           THEN /\ call.conn = "live" /\ call.err = Nil
                /\ Dialled = {call.i}
                /\ Len(call.slept) = call.i - 1
           ELSE /\ call.conn = "nil" /\ call.err # Nil
                /\ call.i = maxRetries

Processed == call.fn = "ProcessImage" /\ call.pc = "done" /\ call.err = Nil
NoResizeNoStorage ==
    /\ ~call.config.OptimizeStorage
    /\ call.config.MaxWidth = 0 /\ call.config.MaxHeight = 0
KeptOriginal ==
    /\ Get(call.result).OptimizedPath = call.originalPath
    /\ Get(call.result).OptimizedSize = call.original.len
    /\ OptimizedPath(ImageId, call.fileName) \notin DOMAIN objects

\* C25 as stated: with optimize_storage=false and max_width=max_height=0 the
\* result is always the fallback (original path, size and dimensions, nothing
\* uploaded), whatever the length of the encoding.
C25_AlwaysFallback ==
    (Processed /\ NoResizeNoStorage) =>
        /\ KeptOriginal
        /\ Get(call.result).OptimizedWidth = call.original.w
        /\ Get(call.result).OptimizedHeight = call.original.h

\* C25 amended: with optimize_storage=false and max_width=max_height=0 the
\* dimensions are the original's, and the result is the fallback exactly when
\* the encoding is not shorter than the original; a shorter encoding is
\* uploaded under "{id}/optimized{ext}" and the result carries its length.
C25_FallbackUnlessSmaller ==
    (Processed /\ NoResizeNoStorage) =>
        /\ Get(call.result).OptimizedWidth = call.original.w
        /\ Get(call.result).OptimizedHeight = call.original.h
        /\ IF call.encLen < call.original.len
           THEN /\ Get(call.result).OptimizedPath = OptimizedPath(ImageId, call.fileName)
                /\ Get(call.result).OptimizedSize = call.encLen
                /\ OptimizedPath(ImageId, call.fileName) \in DOMAIN objects
                /\ objects[OptimizedPath(ImageId, call.fileName)].len = call.encLen
           ELSE KeptOriginal

C25_Witness ==
    /\ Processed /\ NoResizeNoStorage
    /\ call.encLen < call.original.len
    /\ Get(call.result).OptimizedPath # call.originalPath

\* C26: a task of the upload handler with the default configuration (no query
\* parameter), on an original within 1200x1200, whose encoding is not shorter
\* than the original, completes with optimized_path = original_path and
\* optimized_size = original_size.
DefaultUploadDone ==
    /\ Settled /\ wk.outcome = "ack" /\ IsSome(wk.result)
    /\ Get(wk.msg) = "m1"
    /\ Get(up.query) = [max_width |-> 0, max_height |-> 0, quality |-> 0]
    /\ Get(up.file).w <= defaultMaxWidth /\ Get(up.file).h <= defaultMaxHeight
C26_NoGainFallback ==
    (DefaultUploadDone /\ Get(wk.result).OptimizedSize >= Get(up.file).len) =>
        /\ Get(wk.result).OptimizedPath = GenerateObjectName(ImageId, FileName(Get(up.file).kind))
        /\ Get(wk.result).OptimizedSize = Get(up.file).len

\* C27: no upscale: when the original is within the maximum in both
\* directions the result has the original's width and height.
C27_NoUpscale ==
    (/\ Processed
     /\ call.original.w <= call.config.MaxWidth
     /\ call.original.h <= call.config.MaxHeight) =>
        /\ Get(call.result).OptimizedWidth = call.original.w
        /\ Get(call.result).OptimizedHeight = call.original.h

C27_Witness ==
    /\ Processed
    /\ call.original.w < call.config.MaxWidth
    /\ call.original.h < call.config.MaxHeight
    /\ Get(call.result).OptimizedWidth = call.original.w
    /\ Get(call.result).OptimizedHeight = call.original.h

\* C28: when the original exceeds the maximum in width or in height, the new
\* width and height are within the maxima and are floor(W*s) and floor(H*s)
\* for s = min(max_width/W, max_height/H), s taken as the exact quotient.
Floor(x, num, den) == (x * num) \div den
C28_ScaledDownByFloor ==
    (/\ call.fn = "TargetDims" /\ call.pc = "done"
     /\ (call.W > call.maxW \/ call.H > call.maxH)) =>
        LET widthIsMin == call.maxW * call.H <= call.maxH * call.W
            num == IF widthIsMin THEN call.maxW ELSE call.maxH
            den == IF widthIsMin THEN call.W ELSE call.H
        IN  /\ call.dims[1] <= call.maxW
            /\ call.dims[2] <= call.maxH
            /\ call.dims = <<Floor(call.W, num, den), Floor(call.H, num, den)>>

\* C29: the quality the JPEG encoder uses is clamp(q, 1, 100) of the quality q
\* the task carries (above 100: 100, below 1: 1), and 85 only when the task
\* carries no quality.
Clamp(q, lo, hi) == IF q < lo THEN lo ELSE IF q > hi THEN hi ELSE q
C29_QualityClamped ==
    (call.fn = "config" /\ call.pc = "encoded") =>
        LET entry == Get(call.configData).quality
        IN  Get(call.quality) = IF TypeIs(entry, "float64")
                                THEN Clamp(Get(entry).v, 1, maxQuality)
                                ELSE defaultQuality

\* C30: for an upload, each of max_width, max_height and quality of the
\* configuration the processor is invoked with is the query parameter when
\* that parameter is an integer > 0, and the default (1200, 1200, 85)
\* otherwise.
QueryOr(param, default) == IF IsSome(param) /\ Get(param) > 0 THEN Get(param) ELSE default
C30_QueryOverridesDefaults ==
    (call.fn = "config" /\ call.origin = "upload" /\ IsSome(call.config)) =>
        /\ Get(call.config).MaxWidth = QueryOr(call.raw.max_width, defaultMaxWidth)
        /\ Get(call.config).MaxHeight = QueryOr(call.raw.max_height, defaultMaxHeight)
        /\ Get(call.config).Quality = QueryOr(call.raw.quality, defaultQuality)

\* C31: update_optimized is idempotent: after a second application with the
\* same arguments every column of every row (status, error, original and
\* optimized columns) is as it was after the first.
C31_UpdateOptimizedIdempotent ==
    (call.fn = "UpdateImageOptimized" /\ call.applied = 2) => rows = call.once

C31_Witness ==
    /\ call.fn = "UpdateImageOptimized" /\ call.applied = 2
    /\ call.id \in DOMAIN rows
    /\ rows # call.before
    /\ call.before[call.id].status = StatusFailed
    /\ rows[call.id].status = StatusCompleted

\* C32: the listing clamps limit into [1,100]: the repository is called with
\* clamp(limit, 1, 100) of the limit asked for (1 for 0, 100 for 101), never
\* with a limit outside [1,100].
C32_LimitClamped ==
    (call.fn = "ListImages" /\ call.pc = "done") =>
        /\ call.limit \in 1..maxLimit
        /\ IsSome(call.raw.limit) => call.limit = Clamp(Get(call.raw.limit), 1, maxLimit)

\* C33: once a DELETE has answered 200 the row is gone (a GET of the id finds
\* nothing), and before the row was removed the request had attempted the
\* delete of original_path and, when optimized_path is set and different, of
\* optimized_path; whether those deletes succeeded plays no part.
C33_DeleteCascade ==
    \A k \in Requests :
        (call.fn = "DeleteImage" /\ Req(k).resp = "200") =>
            /\ Req(k).id \notin DOMAIN rows
            /\ GetImageByID(rows, Req(k).id, TRUE) = "notfound"
            /\ Req(k).triedOriginal
            /\ (/\ Get(Req(k).img).OptimizedPath # EmptyText
                /\ Get(Req(k).img).OptimizedPath # Get(Req(k).img).OriginalPath)
                 => Req(k).triedOptimized

C33_Witness ==
    \E k \in Requests :
        /\ call.fn = "DeleteImage" /\ Req(k).resp = "200"
        /\ Req(k).triedOptimized
        /\ Get(Req(k).img).OriginalPath \in DOMAIN objects
        /\ Get(Req(k).img).OptimizedPath \in DOMAIN objects

\* C34: a DELETE for an id without a row answers 404, also when the row went
\* away between the request's lookup and its own DELETE statement: of the
\* requests for one id exactly one answers 200 and the others 404.
C34_MissingRowIs404 ==
    \A k \in Requests :
        (/\ call.fn = "DeleteImage" /\ Req(k).pc = "done"
         /\ (Req(k).img = None \/ Req(k).affected = 0)) => Req(k).resp = "404"

\* C35: the processor uploads the encoding under "{id}/optimized{ext}" and
\* returns that key with the encoding's length and the new dimensions exactly
\* when the encoding is shorter than the original, or the dimensions changed,
\* or optimize_storage is set; otherwise it uploads nothing and returns
\* original_path with the original's length and dimensions.
C35_UploadOrFallback ==
    Processed =>
        LET o == call.original
            res == Get(call.result)
            dims == TargetDims(o.w, o.h, call.config.MaxWidth, call.config.MaxHeight)
            key == <<ImageId, "optimized", call.fileName.ext>>
        IN  IF \/ call.encLen < o.len
               \/ dims # <<o.w, o.h>>
               \/ call.config.OptimizeStorage
            THEN /\ res = ProcessingResult(key, call.encLen, dims[1], dims[2])
                 /\ key \in DOMAIN objects /\ objects[key].len = call.encLen
                 /\ call.originalPath \in DOMAIN objects
                 /\ objects[call.originalPath] = o
            ELSE /\ res = ProcessingResult(call.originalPath, o.len, o.w, o.h)
                 /\ key \notin DOMAIN objects
                 /\ objects = MinioUploadImage(ForeignObjects, call.originalPath, o)

C35_Witness ==
    /\ Processed
    /\ call.encLen >= call.original.len /\ ~call.config.OptimizeStorage
    /\ Get(call.result).OptimizedWidth < call.original.w
    /\ Get(call.result).OptimizedPath # call.originalPath

\* C36: within a delivery the processor is invoked only after that delivery's
\* update_status(processing) succeeded, and a terminal write (update_optimized
\* or update_status failed) succeeds only after the processor returned; a
\* delivery starts with none of the three done, so a redelivery goes through
\* update_status(processing) again.
C36_SideEffectsOrdered ==
    [][/\ wk'.invoked => wk'.claimed
       /\ wk'.pc \in {"process", "upload", "terminal", "fallback"} => wk'.claimed
       /\ wk'.pc \in {"upload", "terminal", "fallback"} => wk'.invoked
       /\ wk'.termWrite => wk'.invoked
       /\ (wk.pc = "select" /\ wk'.pc # "select" /\ wk'.pc # "exited") =>
             (~wk'.claimed /\ ~wk'.invoked /\ ~wk'.termWrite)
       /\ (~wk.claimed /\ wk'.claimed) =>
             (wk.pc = "dispatch"
              /\ rows' = UpdateImageStatus(rows, CurId, StatusProcessing, EmptyText))]_vars

C36_Witness ==
    /\ Settled /\ wk.claimed /\ wk.invoked /\ wk.termWrite
    /\ msgs[Get(wk.msg)].deliveries = MaxDeliveries
    /\ wk.err # Nil

\* C37: once Worker.Stop has closed the semaphore no processTask call sends
\* on it: no call is ever unwinding from the panic of a send on the closed
\* channel, and the worker process never ends by that panic.
C37_NoSendOnClosedSemaphore == wk.pc # "panicking" /\ mainpc # "crashed"

\* C38: the worker never creates a row: the only step that adds a row is the
\* insert of the upload handler, and a write of the worker for an id that has
\* no row (never had one, or lost it to a DELETE before or during the task)
\* leaves the table as it is, so that no row of that id exists afterwards.
C38_WorkerCreatesNoRow ==
    [][/\ DOMAIN rows' \subseteq
            DOMAIN rows \cup (IF up.pc = "stored" /\ up'.pc = "created" THEN {ImageId} ELSE {})
       /\ (/\ wk' # wk
           /\ \/ wk.pc \in {"terminal", "fallback"}
              \/ wk.pc = "dispatch" /\ wk'.claimed
           /\ CurId \notin DOMAIN rows) => rows' = rows]_vars

\* a task of the uploaded image, taken after its row was deleted: both writes
\* of the delivery succeeded and the image has no row
C38_Witness ==
    /\ Settled /\ wk.claimed /\ wk.termWrite
    /\ CurId = ImageId /\ ImageId \notin DOMAIN rows
    /\ wk.fetch = "notfound"
    /\ up.pc = "202"

\* C39: a delivery of a message whose body does not decode as a task never
\* reaches the worker's handler (no wg.Add, no slot, no processor call), makes
\* no step that changes the table or the bucket, and is nacked with requeue
\* every time: it is never acked.
Undecodable == IsSome(wk.msg) /\ msgs[Get(wk.msg)].body = GarbageBody
C39_UndecodableRequeued ==
    [][/\ Undecodable' =>
            /\ wk'.pc \in {"settle", "settled"}
            /\ wk'.err = ErrUnmarshal
            /\ ~wk'.held /\ ~wk'.claimed /\ ~wk'.invoked /\ ~wk'.termWrite
            /\ wk'.outcome # "ack"
            /\ wk'.pc = "settled" => (wk'.outcome = "nack" /\ Get(wk'.msg) \in queue')
       /\ (Undecodable /\ wk' # wk) => (rows' = rows /\ objects' = objects /\ wg' = wg)]_vars

C39_Witness ==
    /\ Undecodable /\ Settled /\ wk.outcome = "nack"
    /\ msgs[Get(wk.msg)].deliveries = MaxDeliveries

\* C40: in every reachable state a completed row has the empty error text:
\* the delivery that completes it has set error to "" with processing, and
\* update_optimized does not write error.
C40_CompletedHasNoError ==
    \A id \in DOMAIN rows :
        rows[id].status = StatusCompleted => rows[id].error = Some(EmptyText)

\* the second delivery completes an image whose first delivery failed
C40_Witness ==
    /\ Settled /\ wk.termWrite /\ wk.err = Nil
    /\ CurId \in DOMAIN rows /\ rows[CurId].status = StatusCompleted
    /\ msgs[Get(wk.msg)].deliveries = MaxDeliveries
    /\ TotalDeliveries = MaxDeliveries

====
